---- MODULE Spec2Model ----
(***************************************************************************)
(* Probability post-processing pipeline of FER_iOS (example_/main.cpp and  *)
(* example_/ProbabilityAdjustment.h): EmotionProbabilityAdjuster::adjust,  *)
(* applyEma, the bounded history deque, medianFromHistory and the frame    *)
(* loop of captureVideoAndProcess.                                         *)
(*                                                                         *)
(* The code computes in C++ `float`.  A float is modelled by its IEEE-754  *)
(* binary32 bit pattern: the integer  sign * bits(|x|)  (so +0 and -0 are  *)
(* one value, 0).  On finite values the integer order is the float order.  *)
(* Every arithmetic operation rounds to nearest, ties to even, once per    *)
(* operation (FLT_EVAL_METHOD 0, no fused multiply-add).                   *)
(***************************************************************************)
EXTENDS Integers, Sequences, FiniteSets

----------------------------------------------------------------------------
(* binary32 arithmetic                                                     *)

Hidden == 2^23                      \* the implicit leading mantissa bit
FInf == 255 * Hidden                \* bits of +infinity (0x7F800000)
FNaN == 255 * Hidden + 2^22         \* bits of the quiet NaN (0x7FC00000)

Mag(f) == IF f < 0 THEN -f ELSE f
Sgn(f) == IF f < 0 THEN -1 ELSE 1
IsNaN(f) == Mag(f) > FInf
IsInf(f) == Mag(f) = FInf
IsFinite(f) == Mag(f) < FInf

RECURSIVE BitLen(_)
BitLen(m) == IF m = 0 THEN 0 ELSE 1 + BitLen(m \div 2)

\* |x| = Mant * 2^(Exp - 150); a subnormal has exponent field 0 and no hidden bit.
BExp(p) == p \div Hidden
Mant(p) == IF BExp(p) = 0 THEN p % Hidden ELSE (p % Hidden) + Hidden
Exp(p) == IF BExp(p) = 0 THEN 1 ELSE BExp(p)
\* The same with the mantissa brought to 24 bits (p # 0).
NShift(p) == IF BExp(p) = 0 THEN 24 - BitLen(Mant(p)) ELSE 0
NMant(p) == Mant(p) * 2^NShift(p)
NExp(p) == Exp(p) - NShift(p)

\* The float nearest to s * M * 2^(ex - 150), ties to even.  M < 2^31; when
\* bits were lost below M they are or-ed into its last bit, and M then has
\* at least 26 bits.
RoundPack(s, M, ex) ==
    IF M = 0 THEN 0
    ELSE LET nb == BitLen(M)
             E == ex + nb - 24
             Eeff == IF E < 1 THEN 1 ELSE E
             shift == Eeff - ex
         IN IF Eeff >= 255 THEN s * FInf
            ELSE IF shift <= 0
                 THEN s * ((Eeff - 1) * Hidden + M * 2^(-shift))
            ELSE IF shift > nb THEN 0
            ELSE LET q == M \div 2^shift
                     r == M % 2^shift
                     half == 2^(shift - 1)
                     up == IF r > half \/ (r = half /\ q % 2 = 1) THEN 1 ELSE 0
                     bits == (Eeff - 1) * Hidden + q + up
                 IN IF bits >= FInf THEN s * FInf ELSE s * bits

\* a * b
FMul(a, b) ==
    IF IsNaN(a) \/ IsNaN(b) THEN FNaN
    ELSE IF IsInf(a) \/ IsInf(b)
         THEN IF a = 0 \/ b = 0 THEN FNaN ELSE Sgn(a) * Sgn(b) * FInf
    ELSE IF a = 0 \/ b = 0 THEN 0
    ELSE LET ma == NMant(Mag(a))
             mb == NMant(Mag(b))
             a1 == ma \div 4096
             a0 == ma % 4096
             b1 == mb \div 4096
             b0 == mb % 4096
             mid == a1 * b0 + a0 * b1
             lo == a0 * b0 + (mid % 4096) * 4096
             hi == a1 * b1 + (mid \div 4096) + (lo \div 2^24)
             lo24 == lo % 2^24
             top == hi * 16 + (lo24 \div 2^20)
             M == IF lo24 % 2^20 # 0 /\ top % 2 = 0 THEN top + 1 ELSE top
         IN RoundPack(Sgn(a) * Sgn(b), M, NExp(Mag(a)) + NExp(Mag(b)) - 130)

\* a / b
FDiv(a, b) ==
    IF IsNaN(a) \/ IsNaN(b) THEN FNaN
    ELSE IF IsInf(a) THEN (IF IsInf(b) THEN FNaN ELSE Sgn(a) * Sgn(b) * FInf)
    ELSE IF IsInf(b) THEN 0
    ELSE IF b = 0 THEN (IF a = 0 THEN FNaN ELSE Sgn(a) * FInf)
    ELSE IF a = 0 THEN 0
    ELSE LET ma == NMant(Mag(a))
             mb == NMant(Mag(b))
             q0 == ma \div mb
             r0 == ma % mb
             q1 == (r0 * 128) \div mb
             r1 == (r0 * 128) % mb
             q2 == (r1 * 128) \div mb
             r2 == (r1 * 128) % mb
             q3 == (r2 * 128) \div mb
             r3 == (r2 * 128) % mb
             q4 == (r3 * 128) \div mb
             r4 == (r3 * 128) % mb
             Q == (((q0 * 128 + q1) * 128 + q2) * 128 + q3) * 128 + q4
             M == IF r4 # 0 /\ Q % 2 = 0 THEN Q + 1 ELSE Q
         IN RoundPack(Sgn(a) * Sgn(b), M, NExp(Mag(a)) - NExp(Mag(b)) + 122)

\* a + b
FAdd(a, b) ==
    IF IsNaN(a) \/ IsNaN(b) THEN FNaN
    ELSE IF IsInf(a) THEN (IF IsInf(b) /\ a # b THEN FNaN ELSE a)
    ELSE IF IsInf(b) THEN b
    ELSE IF a = 0 THEN b
    ELSE IF b = 0 THEN a
    ELSE LET x == IF Mag(a) >= Mag(b) THEN a ELSE b
             y == IF Mag(a) >= Mag(b) THEN b ELSE a
             ex == Exp(Mag(x))
             d == ex - Exp(Mag(y))
             Mx == Mant(Mag(x)) * 8
             full == Mant(Mag(y)) * 8
             My == IF d > 27 THEN 1
                   ELSE LET w == full \div 2^d
                        IN IF full % 2^d # 0 /\ w % 2 = 0 THEN w + 1 ELSE w
             M == IF Sgn(x) = Sgn(y) THEN Mx + My ELSE Mx - My
         IN RoundPack(Sgn(x), M, ex - 3)

FSub(a, b) == FAdd(a, -b)

\* The C++ comparisons: false when an operand is a NaN.
FGt(a, b) == ~IsNaN(a) /\ ~IsNaN(b) /\ a > b
FLe(a, b) == ~IsNaN(a) /\ ~IsNaN(b) /\ a <= b

\* Float literals: the float equal to the integer n, and the float nearest n/d.
FInt(n) == Sgn(n) * RoundPack(1, Mag(n), 150)
FRat(n, d) == FDiv(FInt(n), FInt(d))
Vec(s) == [i \in 1..Len(s) |-> FInt(s[i])]
VecOver(s, d) == [i \in 1..Len(s) |-> FRat(s[i], d)]

Zero == FInt(0)
One == FInt(1)

----------------------------------------------------------------------------
(* Program constants                                                       *)

maxHistory == 3             \* main.cpp:14 sets 60; scaled for model checking
ema_alpha == FRat(1, 10)    \* const float ema_alpha = 0.1f
DriverBoost == FInt(2)      \* EmotionProbabilityAdjuster adjuster(2.0f)
DefaultNeutralIndex == 3    \* int neutralIndex = 3

MaxFrames == 5              \* processed frames per run

----------------------------------------------------------------------------
(* State                                                                   *)

VARIABLES
    adjuster,               \* the adjuster in scope: its fields, or NoAdjuster
    probabilities,          \* the vector last passed to adjust
    adjustedProbabilities,  \* what adjust returned for it
    new_probs, alpha,       \* the arguments of the last applyEma call
    ema_before,             \* ema_state as that call found it
    ema_state,              \* the smoother's state vector
    ema_probs,              \* what the last applyEma call returned
    history,                \* deque<vector<float>>, oldest first
    median_probs,           \* what the last medianFromHistory call returned
    display_probs,          \* the vector handed to visualizeProbabilities
    running,                \* the frame loop has not ended
    last,                   \* the branch or call taken last
    oob,                    \* an index outside a vector was read or written
    steps,                  \* frames processed
    rawLog,                 \* every raw distribution processed, in order
    pushed                  \* every vector pushed into history, in order

vars == <<adjuster, probabilities, adjustedProbabilities, new_probs, alpha,
          ema_before, ema_state, ema_probs, history, median_probs,
          display_probs, running, last, oob, steps, rawLog, pushed>>

NoAdjuster == [boostFactor |-> Zero, neutralIndex |-> -1, constructed |-> FALSE]

----------------------------------------------------------------------------
(* ProbabilityAdjustment.h                                                 *)

\* The constructor stores its arguments; it checks nothing.
EmotionProbabilityAdjuster(boostFactor, neutralIndex) ==
    [boostFactor |-> boostFactor, neutralIndex |-> neutralIndex,
     constructed |-> TRUE]

\* size() > static_cast<size_t>(neutralIndex): a negative index converts to a
\* value no vector's size exceeds.
BoostApplies(adj, p) == adj.neutralIndex >= 0 /\ Len(p) > adj.neutralIndex

Boosted(adj, p) ==
    IF BoostApplies(adj, p)
    THEN [p EXCEPT ![adj.neutralIndex + 1] = FMul(@, adj.boostFactor)]
    ELSE p

\* std::accumulate(begin, end, 0.0f)
RECURSIVE AccumulateFrom(_, _)
AccumulateFrom(acc, v) ==
    IF v = <<>> THEN acc ELSE AccumulateFrom(FAdd(acc, Head(v)), Tail(v))
Accumulate(v) == AccumulateFrom(Zero, v)

\* Mutants of Normalize: the division left out; the guard on the sum left out.
NormalizeSkipped(v, sum) == v
NormalizeUnguarded(v, sum) == [i \in 1..Len(v) |-> FDiv(v[i], sum)]

\* if (sum > 0) for (auto &p : adjusted) p /= sum;
Normalize(v, sum) ==
    IF FGt(sum, Zero) THEN [i \in 1..Len(v) |-> FDiv(v[i], sum)] ELSE v

\* Mutant of adjust: the boost without the re-normalization.
AdjustBoostOnly(adj, p) == Boosted(adj, p)

adjust(adj, p) == Normalize(Boosted(adj, p), Accumulate(Boosted(adj, p)))

----------------------------------------------------------------------------
(* main.cpp                                                                *)

Blend(a, x, s) == FAdd(FMul(a, x), FMul(FSub(One, a), s))

\* The loop runs over new_probs and indexes ema_state with the same i: past
\* ema_state's end the access is out of bounds.
EmaOverrun(np, st) == st # <<>> /\ Len(np) > Len(st)

\* Mutant of applyEma: the first call blends into a zero state instead of
\* seeding.
ApplyEmaBlendSeed(np, st, a) ==
    IF st = <<>> THEN [i \in 1..Len(np) |-> Blend(a, np[i], Zero)]
    ELSE [i \in 1..Len(st) |-> IF i <= Len(np) THEN Blend(a, np[i], st[i])
                                                ELSE st[i]]

\* ema_state after the call; the value returned is a copy of it.  Only the
\* indices inside ema_state are part of the vector.
applyEma(np, st, a) ==
    IF st = <<>> THEN np
    ELSE [i \in 1..Len(st) |-> IF i <= Len(np) THEN Blend(a, np[i], st[i])
                                                ELSE st[i]]

RECURSIVE Insert(_, _)
Insert(s, x) ==
    IF s = <<>> THEN <<x>>
    ELSE IF x <= Head(s) THEN <<x>> \o s
    ELSE <<Head(s)>> \o Insert(Tail(s), x)
RECURSIVE SortAsc(_)
SortAsc(s) == IF s = <<>> THEN <<>> ELSE Insert(SortAsc(Tail(s)), Head(s))

\* nth_element(begin, begin + n, end); col[n]: the element an ascending sort
\* puts at index n (0-based).
NthElement(col, n) == SortAsc(col)[n + 1]

\* Mutant of MedianIndex: the lower middle.
MedianIndexLower(col) == (Len(col) - 1) \div 2

\* col.size() / 2
MedianIndex(col) == Len(col) \div 2

RECURSIVE Column(_, _)
Column(h, c) ==
    IF h = <<>> THEN <<>>
    ELSE IF c <= Len(Head(h)) THEN <<Head(h)[c]>> \o Column(Tail(h), c)
    ELSE Column(Tail(h), c)

medianFromHistory(h) ==
    IF h = <<>> THEN <<>>
    ELSE [c \in 1..Len(Head(h)) |->
            IF Column(h, c) # <<>>
            THEN NthElement(Column(h, c), MedianIndex(Column(h, c)))
            ELSE Zero]

\* Mutant of PushEvict: nothing is evicted.
PushEvictUnbounded(h, e) == Append(h, e)

\* history.push_back(e); if (history.size() > maxHistory) history.pop_front();
PushEvict(h, e) ==
    IF Len(Append(h, e)) > maxHistory THEN Tail(Append(h, e)) ELSE Append(h, e)

\* Mutant of DisplayProbs: the median whatever it is.
DisplayProbsNoFallback(med, ema) == med

\* median_probs.empty() ? ema_probs : median_probs
DisplayProbs(med, ema) == IF med = <<>> THEN ema ELSE med

----------------------------------------------------------------------------
(* Inputs                                                                  *)

Quarter4 == VecOver(<<1, 1, 1, 1>>, 4)

\* What face2Int can return for a detected face: predictor.predict's vector
\* (its length is the model's business), or nothing for an empty face.
ModelOutputs ==
    { <<>>,
      Quarter4,
      Vec(<<1, 0, 0, 0>>),
      Vec(<<3, 5, 1, 0>>),
      Vec(<<1, 2>>),
      Vec(<<1, 1, 1, 1, 1>>) }

----------------------------------------------------------------------------
(* The frame loop of captureVideoAndProcess                                *)

Init ==
    /\ adjuster = NoAdjuster
    /\ probabilities = <<>>
    /\ adjustedProbabilities = <<>>
    /\ new_probs = <<>>
    /\ alpha = ema_alpha
    /\ ema_before = <<>>
    /\ ema_state = <<>>
    /\ ema_probs = <<>>
    /\ history = <<>>
    /\ median_probs = <<>>
    /\ display_probs = <<>>
    /\ running = TRUE
    /\ last = "start"
    /\ oob = FALSE
    /\ steps = 0
    /\ rawLog = <<>>
    /\ pushed = <<>>

\* features.empty(): nothing but the camera image is shown.
NoFace ==
    /\ running
    /\ last' = "noface"
    /\ UNCHANGED <<adjuster, probabilities, adjustedProbabilities, new_probs,
                   alpha, ema_before, ema_state, ema_probs, history,
                   median_probs, display_probs, running, oob, steps, rawLog,
                   pushed>>

\* Mutant of ProbabilitiesEmpty: the check left out.
ProbabilitiesEmptyNever(raw) == FALSE

\* if (probabilities.empty())
ProbabilitiesEmpty(raw) == raw = <<>>

\* face2Int returned an empty vector: continue.
EmptyProbabilities(raw) ==
    /\ running
    /\ ProbabilitiesEmpty(raw)
    /\ last' = "empty"
    /\ UNCHANGED <<adjuster, probabilities, adjustedProbabilities, new_probs,
                   alpha, ema_before, ema_state, ema_probs, history,
                   median_probs, display_probs, running, oob, steps, rawLog,
                   pushed>>

\* Lines 158-168 for a raw distribution.  When applyEma overruns ema_state
\* the behaviour is undefined: here the stray accesses land outside the
\* program's vectors and the frame goes on (EmaCrash is the other outcome).
ProcessFrame(raw) ==
    /\ running
    /\ steps < MaxFrames
    /\ ~ProbabilitiesEmpty(raw)
    /\ \E adj \in {EmotionProbabilityAdjuster(DriverBoost, DefaultNeutralIndex)} :
       \E adjusted \in {adjust(adj, raw)} :
       \E ema \in {applyEma(adjusted, ema_state, ema_alpha)} :
       \E h \in {PushEvict(history, ema)} :
       \E med \in {medianFromHistory(h)} :
          /\ adjuster' = adj
          /\ probabilities' = raw
          /\ adjustedProbabilities' = adjusted
          /\ new_probs' = adjusted
          /\ alpha' = ema_alpha
          /\ ema_before' = ema_state
          /\ ema_state' = ema
          /\ ema_probs' = ema
          /\ oob' = (oob \/ EmaOverrun(adjusted, ema_state))
          /\ history' = h
          /\ median_probs' = med
          /\ display_probs' = DisplayProbs(med, ema)
          /\ pushed' = Append(pushed, ema)
    /\ rawLog' = Append(rawLog, raw)
    /\ steps' = steps + 1
    /\ last' = "frame"
    /\ UNCHANGED running

\* The overrun faults: the process ends inside applyEma.
EmaCrash(raw) ==
    /\ running
    /\ steps < MaxFrames
    /\ ~ProbabilitiesEmpty(raw)
    /\ \E adj \in {EmotionProbabilityAdjuster(DriverBoost, DefaultNeutralIndex)} :
       \E adjusted \in {adjust(adj, raw)} :
          /\ EmaOverrun(adjusted, ema_state)
          /\ adjuster' = adj
          /\ probabilities' = raw
          /\ adjustedProbabilities' = adjusted
          /\ new_probs' = adjusted
    /\ alpha' = ema_alpha
    /\ ema_before' = ema_state
    /\ oob' = TRUE
    /\ running' = FALSE
    /\ last' = "crash"
    /\ UNCHANGED <<ema_state, ema_probs, history, median_probs, display_probs,
                   steps, rawLog, pushed>>

\* capture.read fails, or the key is q.
Quit ==
    /\ running
    /\ running' = FALSE
    /\ last' = "quit"
    /\ UNCHANGED <<adjuster, probabilities, adjustedProbabilities, new_probs,
                   alpha, ema_before, ema_state, ema_probs, history,
                   median_probs, display_probs, oob, steps, rawLog, pushed>>

Next ==
    \/ NoFace
    \/ \E raw \in ModelOutputs : EmptyProbabilities(raw)
    \/ \E raw \in ModelOutputs : ProcessFrame(raw)
    \/ \E raw \in ModelOutputs : EmaCrash(raw)
    \/ Quit

Spec == Init /\ [][Next]_vars

----------------------------------------------------------------------------
(* The functions on their own: any configuration, any argument             *)

BoostInputs == {FInt(2), FRat(3, 2), Zero, FInt(-1)}
NeutralInputs == {DefaultNeutralIndex, 1}
AlphaInputs == {ema_alpha, FRat(1, 2), One, Zero, FRat(3, 2)}

VecInputs ==
    { <<>>,
      Vec(<<1, 0>>),
      Vec(<<0, 1>>),
      Vec(<<0, 0, 0, 0>>),
      Quarter4,
      Vec(<<3, 5, 1, 0>>),
      Vec(<<1, 7, 1, 7>>),
      Vec(<<1, -2>>),
      <<FInt(1000), FInt(-999), FRat(7, 10)>>,
      Vec(<<1, 1, 1, 1, 1>>) }

EmaInputs ==
    { <<>>,
      Vec(<<1, 0>>),
      VecOver(<<1, 1, 1, 7>>, 10),
      VecOver(<<1, 1, 1, 1, 1>>, 5) }

HistInputs ==
    { <<>>,
      << <<>> >>,
      << <<>>, Vec(<<1, 0>>) >>,
      << Vec(<<0, 1>>), Vec(<<1, 0>>), VecOver(<<1, 1>>, 2) >>,
      << Vec(<<0>>), Vec(<<1>>) >>,
      << Vec(<<3, 1>>), Vec(<<1, 3>>), Vec(<<2, 2>>), Vec(<<0, 4>>) >>,
      << Vec(<<1, 2, 3>>), Vec(<<4>>), Vec(<<5, 6>>) >>,
      << Vec(<<1>>), Vec(<<4, 2, 3>>) >> }

UnitInit ==
    /\ adjuster = NoAdjuster
    /\ probabilities = <<>>
    /\ adjustedProbabilities = <<>>
    /\ new_probs = <<>>
    /\ alpha = ema_alpha
    /\ ema_before = <<>>
    /\ ema_state \in EmaInputs
    /\ ema_probs = ema_state
    /\ history \in HistInputs
    /\ median_probs = <<>>
    /\ display_probs = <<>>
    /\ running = TRUE
    /\ last = "start"
    /\ oob = FALSE
    /\ steps = 0
    /\ rawLog = <<>>
    /\ pushed = <<>>

\* EmotionProbabilityAdjuster adjuster(boostFactor, neutralIndex);
Construct(boostFactor, neutralIndex) ==
    /\ last = "start"
    /\ adjuster' = EmotionProbabilityAdjuster(boostFactor, neutralIndex)
    /\ last' = "construct"
    /\ UNCHANGED <<probabilities, adjustedProbabilities, new_probs, alpha,
                   ema_before, ema_state, ema_probs, history, median_probs,
                   display_probs, running, oob, steps, rawLog, pushed>>

\* adjuster.adjust(p)
CallAdjust(p) ==
    /\ last = "construct"
    /\ probabilities' = p
    /\ adjustedProbabilities' = adjust(adjuster, p)
    /\ last' = "adjust"
    /\ UNCHANGED <<adjuster, new_probs, alpha, ema_before, ema_state,
                   ema_probs, history, median_probs, display_probs, running,
                   oob, steps, rawLog, pushed>>

\* applyEma(np, ema_state, a); an overrun that does not fault leaves the
\* vector's own elements as the loop set them.
CallApplyEma(np, a) ==
    /\ last = "start"
    /\ \E ema \in {applyEma(np, ema_state, a)} :
          /\ ema_state' = ema
          /\ ema_probs' = ema
    /\ new_probs' = np
    /\ alpha' = a
    /\ ema_before' = ema_state
    /\ oob' = EmaOverrun(np, ema_state)
    /\ last' = "applyEma"
    /\ UNCHANGED <<adjuster, probabilities, adjustedProbabilities, history,
                   median_probs, display_probs, running, steps, rawLog, pushed>>

\* applyEma(np, ema_state, a) when the overrun faults.
CallApplyEmaCrash(np, a) ==
    /\ last = "start"
    /\ EmaOverrun(np, ema_state)
    /\ new_probs' = np
    /\ alpha' = a
    /\ ema_before' = ema_state
    /\ oob' = TRUE
    /\ running' = FALSE
    /\ last' = "crash"
    /\ UNCHANGED <<adjuster, probabilities, adjustedProbabilities, ema_state,
                   ema_probs, history, median_probs, display_probs, steps,
                   rawLog, pushed>>

\* median_probs = medianFromHistory(history);
\* display_probs = median_probs.empty() ? ema_probs : median_probs;
Aggregate ==
    /\ last \in {"start", "applyEma"}
    /\ \E med \in {medianFromHistory(history)} :
          /\ median_probs' = med
          /\ display_probs' = DisplayProbs(med, ema_probs)
    /\ last' = "aggregate"
    /\ UNCHANGED <<adjuster, probabilities, adjustedProbabilities, new_probs,
                   alpha, ema_before, ema_state, ema_probs, history, running,
                   oob, steps, rawLog, pushed>>

UnitNext ==
    \/ \E b \in BoostInputs, n \in NeutralInputs : Construct(b, n)
    \/ \E p \in VecInputs : CallAdjust(p)
    \/ \E np \in VecInputs, a \in AlphaInputs : CallApplyEma(np, a)
    \/ \E np \in VecInputs, a \in AlphaInputs : CallApplyEmaCrash(np, a)
    \/ Aggregate

UnitSpec == UnitInit /\ [][UnitNext]_vars

----------------------------------------------------------------------------
(* Properties                                                              *)

\* The tolerance of the specification's numeric properties, 1e-5.
Tol == FRat(1, 100000)
Near(a, b) == FLe(Mag(FSub(a, b)), Tol)
VecNear(u, v) == Len(u) = Len(v) /\ \A i \in 1..Len(u) : Near(u[i], v[i])
SumNearOne(v) == Near(Accumulate(v), One)
Min(a, b) == IF a < b THEN a ELSE b

CountLess(col, v) == Cardinality({i \in 1..Len(col) : col[i] < v})
CountLeq(col, v) == Cardinality({i \in 1..Len(col) : col[i] <= v})
\* v is the element an ascending sort of col puts at 0-based index k.
IsOrderStatistic(col, v, k) ==
    /\ \E i \in 1..Len(col) : col[i] = v
    /\ CountLess(col, v) <= k
    /\ CountLeq(col, v) >= k + 1

\* C1: after every push-and-evict step the history holds at most maxHistory
\* vectors, and once more than maxHistory vectors have been pushed it holds
\* exactly the last maxHistory of them, oldest first.
C1_HistoryWindow ==
    /\ Len(history) <= maxHistory
    /\ Len(pushed) <= maxHistory => history = pushed
    /\ Len(pushed) > maxHistory =>
          history = SubSeq(pushed, Len(pushed) - maxHistory + 1, Len(pushed))

C1_Witness ==
    /\ last = "frame"
    /\ Len(pushed) = maxHistory + 2
    /\ Len(history) = maxHistory
    /\ history[1] = pushed[3]
    /\ history[1] # pushed[1]
    /\ history[1] # history[maxHistory]

\* The raw distributions processed so far have one length, no negative entry
\* and a positive sum.
EqualLengthInputs ==
    /\ rawLog # <<>>
    /\ \A i \in 1..Len(rawLog) :
          /\ Len(rawLog[i]) = Len(rawLog[1])
          /\ \A j \in 1..Len(rawLog[i]) : rawLog[i][j] >= 0
          /\ FGt(Accumulate(rawLog[i]), Zero)

\* C2 as stated: for such inputs the display distribution of every cycle sums
\* to 1.0 (here: within the tolerance).
C2_DisplaySumsToOne ==
    (last = "frame" /\ EqualLengthInputs) => SumNearOne(display_probs)

\* C2 amended: for such inputs every smoothed distribution in the history sums
\* to 1.0 within the tolerance, and the display distribution has the inputs'
\* length and takes each class's value from that class of some history entry;
\* it sums to 1.0 when the history holds one entry, not in general.
C2_DisplayFromNormalizedHistory ==
    (last = "frame" /\ EqualLengthInputs) =>
        /\ Len(display_probs) = Len(rawLog[1])
        /\ \A i \in 1..Len(history) : SumNearOne(history[i])
        /\ \A c \in 1..Len(display_probs) :
              \E i \in 1..Len(history) : display_probs[c] = history[i][c]
        /\ Len(history) = 1 => SumNearOne(display_probs)

C2_Witness ==
    /\ last = "frame"
    /\ EqualLengthInputs
    /\ Len(history) >= 2
    /\ ~SumNearOne(display_probs)

\* The same raw distribution, of positive sum, on every cycle so far.
ConstantInput ==
    /\ rawLog # <<>>
    /\ \A i \in 1..Len(rawLog) : rawLog[i] = rawLog[1]
    /\ FGt(Accumulate(rawLog[1]), Zero)

SeventhsExample == <<FRat(1, 7), FRat(1, 7), FRat(1, 7), FRat(4, 7)>>
FifthsExample == <<FRat(1, 5), FRat(1, 5), FRat(1, 5), FRat(2, 5)>>

\* C9 as stated: under a constant input the first smoothed output is the
\* adjusted vector, every later one equals it, the history entries are
\* identical, the median equals the EMA value, and the raw distribution
\* [1/4,1/4,1/4,1/4] gives [1/7,1/7,1/7,4/7], with 3 entries after 3 pushes.
C9_ConstantInputExact ==
    (last = "frame" /\ ConstantInput) =>
        /\ pushed[1] = adjustedProbabilities
        /\ \A i \in 1..Len(pushed) : pushed[i] = pushed[1]
        /\ \A i \in 1..Len(history) : history[i] = history[1]
        /\ median_probs = ema_probs
        /\ rawLog[1] = Quarter4 =>
              /\ adjustedProbabilities = SeventhsExample
              /\ steps = 3 => Len(history) = 3

\* C9 amended: under a constant input the first smoothed output is exactly the
\* adjusted vector; every later smoothed output, every history entry and the
\* median equal it within the tolerance per element (float rounding moves
\* them); [1/4,1/4,1/4,1/4] gives [1/5,1/5,1/5,2/5], and the history holds
\* min(pushes, maxHistory) entries.
C9_ConstantInputNear ==
    (last = "frame" /\ ConstantInput) =>
        /\ pushed[1] = adjustedProbabilities
        /\ \A i \in 1..Len(pushed) : VecNear(pushed[i], pushed[1])
        /\ \A i \in 1..Len(history) : VecNear(history[i], adjustedProbabilities)
        /\ VecNear(median_probs, ema_probs)
        /\ Len(history) = Min(steps, maxHistory)
        /\ rawLog[1] = Quarter4 => adjustedProbabilities = FifthsExample

C9_Witness ==
    /\ last = "frame"
    /\ ConstantInput
    /\ rawLog[1] = Quarter4
    /\ steps = 3
    /\ Len(history) = 3
    /\ pushed[1] = adjustedProbabilities
    /\ ema_probs # adjustedProbabilities
    /\ median_probs # ema_probs

\* C10: a processed frame aggregates a history that is non-empty with a
\* non-empty oldest entry, its median is non-empty and is what is displayed;
\* the median and the display change only in a step that pushes the smoothed
\* vector; a frame without a face or without probabilities changes neither
\* ema_state nor the history.
C10_AggregateOnlyAfterPush ==
    /\ [](last = "frame" =>
            /\ history # <<>>
            /\ Head(history) # <<>>
            /\ median_probs # <<>>
            /\ display_probs = median_probs)
    /\ [][(median_probs' # median_probs \/ display_probs' # display_probs) =>
            /\ last' = "frame"
            /\ pushed' = Append(pushed, ema_probs')
            /\ history'[Len(history')] = ema_probs']_vars
    /\ [][last' \in {"noface", "empty"} =>
            UNCHANGED <<ema_state, history, pushed>>]_vars

C10_Witness ==
    /\ last = "empty"
    /\ Len(pushed) >= 2
    /\ history = pushed
    /\ median_probs # <<>>
    /\ display_probs = median_probs

\* C3 as stated: a call that finds ema_state seeded blends exactly the indices
\* both vectors have, keeps the others, keeps the length, and touches no index
\* outside ema_state.
C3_EmaPartialUpdate ==
    (last \in {"applyEma", "crash"} /\ ema_before # <<>>) =>
        /\ ~oob
        /\ running
        /\ Len(ema_state) = Len(ema_before)
        /\ \A i \in 1..Len(ema_state) :
              ema_state[i] = IF i <= Len(new_probs)
                             THEN Blend(alpha, new_probs[i], ema_before[i])
                             ELSE ema_before[i]

\* C4 as stated: the median of a class is the element at index floor(size/2)
\* of its sorted column and, for an even-sized column, the lower of the two
\* middle elements.
C4_LowerMiddle ==
    last = "aggregate" =>
        \A c \in 1..Len(median_probs) :
            \E col \in {Column(history, c)} :
                col # <<>> =>
                    /\ IsOrderStatistic(col, median_probs[c], Len(col) \div 2)
                    /\ Len(col) % 2 = 0 =>
                          IsOrderStatistic(col, median_probs[c],
                                           Len(col) \div 2 - 1)

\* C4 amended: the median of a class is the element at 0-based index
\* floor(size/2) of its column sorted ascending, which for an even-sized
\* column is the upper of the two middle elements (never their average).
C4_UpperMiddle ==
    last = "aggregate" =>
        \A c \in 1..Len(median_probs) :
            \E col \in {Column(history, c)} :
                col # <<>> =>
                    IsOrderStatistic(col, median_probs[c], Len(col) \div 2)

C4_Witness ==
    /\ last = "aggregate"
    /\ \E c \in 1..Len(median_probs) :
          \E col \in {Column(history, c)} :
              /\ Len(col) = 4
              /\ IsOrderStatistic(col, median_probs[c], 2)
              /\ ~IsOrderStatistic(col, median_probs[c], 1)

C6_InvalidConfigRejected ==
    /\ adjuster.constructed => FLe(Zero, adjuster.boostFactor)
    /\ last \in {"applyEma", "crash"} => (FGt(alpha, Zero) /\ FLe(alpha, One))

\* A distribution (no negative entry) given to an adjuster whose boost factor
\* is not negative.
DistributionInput ==
    /\ probabilities # <<>>
    /\ \A i \in 1..Len(probabilities) : probabilities[i] >= 0
    /\ adjuster.boostFactor >= 0

\* C7: for a non-empty distribution whose boosted sum is positive, adjust
\* returns a vector of the same length, each element the boosted element
\* divided by that sum, summing to 1.0 within the tolerance.
C7_AdjustNormalizes ==
    (last = "adjust" /\ DistributionInput) =>
        \E b \in {Boosted(adjuster, probabilities)} :
        \E sum \in {Accumulate(b)} :
            FGt(sum, Zero) =>
                /\ Len(adjustedProbabilities) = Len(probabilities)
                /\ \A i \in 1..Len(b) :
                      adjustedProbabilities[i] = FDiv(b[i], sum)
                /\ SumNearOne(adjustedProbabilities)

C7_Witness ==
    /\ last = "adjust"
    /\ DistributionInput
    /\ adjuster.boostFactor = DriverBoost
    /\ BoostApplies(adjuster, probabilities)
    /\ FGt(Accumulate(Boosted(adjuster, probabilities)), Zero)
    /\ adjustedProbabilities # probabilities
    /\ Accumulate(adjustedProbabilities) # One
    /\ SumNearOne(adjustedProbabilities)

\* C8: adjust returns, for every input, a vector of the input's length with
\* finite elements (nothing was divided by zero); only the element at
\* neutralIndex is boosted, and only when the input is longer than
\* neutralIndex; when the boosted sum is not positive the result is the
\* boosted vector as it is.
C8_AdjustTotal ==
    last = "adjust" =>
        /\ running
        /\ ~oob
        /\ Len(adjustedProbabilities) = Len(probabilities)
        /\ \A i \in 1..Len(adjustedProbabilities) :
              IsFinite(adjustedProbabilities[i])
        /\ \E b \in {Boosted(adjuster, probabilities)} :
              /\ Len(b) = Len(probabilities)
              /\ \A i \in 1..Len(b) :
                    b[i] = IF i = adjuster.neutralIndex + 1
                           THEN FMul(probabilities[i], adjuster.boostFactor)
                           ELSE probabilities[i]
              /\ FLe(Accumulate(b), Zero) => adjustedProbabilities = b

C8_Witness ==
    /\ last = "adjust"
    /\ probabilities = Vec(<<0, 0, 0, 0>>)
    /\ BoostApplies(adjuster, probabilities)
    /\ adjustedProbabilities = probabilities

====
